---- MODULE Spec2Model ----
(***************************************************************************)
(* Seat inventory and booking core of the cinema backend (movies/,        *)
(* bookings/, accounts/).                                                  *)
(*                                                                         *)
(* The database is the state: the rows of SeatReservation (holds),         *)
(* Booking and Payment, Showtime.available_seats and                       *)
(* Customer.loyalty_points.  Every HTTP request is a process.  A request   *)
(* works on the model instances it loaded (a snapshot kept in req[p]) and  *)
(* writes whole rows back with save(), so a request that loaded a row      *)
(* before another request committed writes stale values.  Each SELECT of   *)
(* a handler is one step; the writes of a handler wrapped in               *)
(* transaction.atomic() become visible in one step (its commit);           *)
(* Showtime.reserve_seats runs outside any transaction, so each of its     *)
(* INSERTs is committed on its own.                                        *)
(*                                                                         *)
(* Time is counted in hours.  Money is counted in cents.                   *)
(***************************************************************************)
EXTENDS Integers, Sequences, FiniteSets, TLC

\* ------------------------------------------------------------------ bounds
MaxTime == 3            \* the clock stops here
MaxBookings == 2        \* Booking rows ever created
MaxHolds == 11          \* SeatReservation rows ever created
MaxSeatsReq == 2        \* largest number_of_seats a client sends
MaxTtl == 1             \* largest expiry (hours) a client sends

\* ------------------------------------------------------- program constants
CancelWindow == 2       \* can_cancel: more than 2 hours before the showtime
MaxSeatsPerBooking == 10
PointValue == 10        \* one loyalty point is worth 0.10 = 10 cents
NoneVal == 0 - 1        \* NULL in a nullable column

\* --------------------------------------------------------- static catalog
Procs == {"p1", "p2"}
Customers == {"u1", "u2"}
\* "S1" has a seat layout (row A, twelve seats); "S2", "S3" and "S4" are sold
\* by count only, and "S4" has been taken off sale.
Showtimes == {"S1", "S2", "S3", "S4"}
ShowtimeAt == 3         \* Showtime.datetime of every showtime
TicketPrice == 1000     \* Showtime.ticket_price = 10.00
InitPoints == 50        \* Customer.loyalty_points at the start

HasLayout(st) == st = "S1"
\* Showtime.is_active
IsActive(st) == st # "S4"
TotalSeats(st) == IF st = "S1" THEN 2 ELSE IF st = "S2" THEN 3 ELSE 5

\* Seat rows of the layout of "S1", in the order of Seat.Meta.ordering
RowA == <<"A1", "A2", "A3", "A4", "A5", "A6",
          "A7", "A8", "A9", "A10", "A11", "A12">>
LayoutSeats == {RowA[i] : i \in DOMAIN RowA}
\* Seat.is_active: the last seat of the row is out of service
SeatIsActive(seat) == seat # "A12"
\* Seat.price_multiplier, in %
PriceMultiplier(seat) == IF seat = "A1" THEN 100 ELSE 150
\* seat identifiers a client may send; "Z9" is no seat of the layout
RequestSeatIds == {"A1", "A2", "Z9"}

\* Seat.Meta.ordering = ['row', 'number']: the rank of a seat of row A
SeatRank(seat) == CHOOSE i \in DOMAIN RowA : RowA[i] = seat

VARIABLES
    now,        \* timezone.now()
    avail,      \* Showtime.available_seats, per showtime
    holds,      \* SeatReservation rows, by id 1..Len(holds)
    bookings,   \* Booking rows, by id
    payments,   \* Payment rows
    points,     \* Customer.loyalty_points, per customer
    pc,         \* where each request is
    req         \* the locals of each request

vars == <<now, avail, holds, bookings, payments, points, pc, req>>
db == <<avail, holds, bookings, payments, points>>

Idle == [kind |-> "none"]

\* ------------------------------------------------------------- operators
IsExpiredNever(h, t) == FALSE

IsExpiredAtDeadline(h, t) == h.status = "reserved" /\ t >= h.expires_at

\* SeatReservation.is_expired
IsExpired(h, t) == h.status = "reserved" /\ t > h.expires_at

\* reserve_seats: self.seat_layout.seats.filter(row=row, number=number).first()
SeatExists(st, seat) == HasLayout(st) /\ seat \in LayoutSeats

\* reserve_seats: self.seat_reservations.filter(seat=seat,
\*                    status__in=['reserved', 'confirmed']).first()
ExistingReservation(hs, st, seat) ==
    \E i \in 1..Len(hs) :
        /\ hs[i].showtime = st
        /\ hs[i].seat = seat
        /\ hs[i].status \in {"reserved", "confirmed"}

\* Showtime.get_available_seats_map: the identifiers of the seats of the
\* reservations with status reserved or confirmed, then, for every seat of
\* the layout, 'is_available': seat_id not in reserved_seats and seat.is_active
GetAvailableSeatsMap(hs, st) ==
    LET reserved_seats == {hs[i].seat : i \in
                              {j \in 1..Len(hs) :
                                  /\ hs[j].showtime = st
                                  /\ hs[j].status \in {"reserved", "confirmed"}}}
    IN  [seat \in LayoutSeats |-> seat \notin reserved_seats /\ SeatIsActive(seat)]

UniqueViolationOff(hs, st, seat) == FALSE

\* SeatReservation.Meta.unique_together = ['showtime', 'seat']: the INSERT of
\* a second row for the pair raises IntegrityError, whatever the rows' status
UniqueViolation(hs, st, seat) ==
    \E i \in 1..Len(hs) : hs[i].showtime = st /\ hs[i].seat = seat

NewReservationFromNow(st, seat, exp) ==
    [showtime |-> st, seat |-> seat, status |-> "reserved",
     expires_at |-> now + 1, booking |-> NoneVal, confirmed_at |-> NoneVal]

\* reserve_seats, lines 199-204: the row SeatReservation.objects.create inserts
NewReservation(st, seat, exp) ==
    [showtime |-> st, seat |-> seat, status |-> "reserved",
     expires_at |-> exp, booking |-> NoneVal, confirmed_at |-> NoneVal]

\* what a finished request leaves behind: its response
Response(r) ==
    IF r.kind = "reserve"
    THEN [kind |-> r.kind, result |-> r.result, showtime |-> r.showtime,
          seat_ids |-> r.seat_ids, created |-> r.created,
          at |-> r.at, ttl |-> r.ttl, expires_at |-> r.expires_at]
    ELSE IF r.kind = "seat_map"
    THEN [kind |-> r.kind, result |-> r.result, showtime |-> r.showtime,
          seat_map |-> r.seat_map]
    ELSE IF r.kind = "release_call"
    THEN [kind |-> r.kind, result |-> r.result, hold |-> r.hold, row |-> r.row]
    ELSE [kind |-> r.kind, result |-> r.result, booking |-> r.booking]

\* the request ends: its response stays with the worker while the client
\* looks at it (r.watched), else the worker is free at once
Finish(p, r) ==
    IF r.watched
    THEN /\ pc' = [pc EXCEPT ![p] = "done"]
         /\ req' = [req EXCEPT ![p] = Response(r)]
    ELSE /\ pc' = [pc EXCEPT ![p] = "idle"]
         /\ req' = [req EXCEPT ![p] = Idle]

\* ------------------------------------------------------------------ Init
Init ==
    /\ now = 0
    /\ avail = [st \in Showtimes |-> TotalSeats(st)]
    /\ holds = <<>>
    /\ bookings = <<>>
    /\ payments = <<>>
    /\ points = [c \in Customers |-> InitPoints]
    /\ pc = [p \in Procs |-> "idle"]
    /\ req = [p \in Procs |-> Idle]

\* --------------------------------------------------------------- reserve
\* seat_ids lists: non-empty (validate_seat_ids), of at most two identifiers
SeatIdLists ==
    {<<a>> : a \in RequestSeatIds} \cup
    {<<a, b>> : a \in RequestSeatIds, b \in RequestSeatIds}

\* SeatReservationView.create up to the call of reserve_seats, and the first
\* lines of reserve_seats (expires_at is fixed once, before the loop)
StartReserve(p, st, ids, ttl, w) ==
    /\ pc[p] = "idle"
    /\ UNCHANGED <<now, db>>
    /\ IF ~IsActive(st)
       THEN Finish(p, [kind |-> "reserve", showtime |-> st, seat_ids |-> ids,
                       watched |-> w, result |-> "not_found", created |-> <<>>,
                       at |-> now, ttl |-> ttl, expires_at |-> now + ttl, i |-> 1])
       ELSE IF ~HasLayout(st)
       THEN Finish(p, [kind |-> "reserve", showtime |-> st, seat_ids |-> ids,
                       watched |-> w, result |-> "no_seat_map", created |-> <<>>,
                       at |-> now, ttl |-> ttl, expires_at |-> now + ttl, i |-> 1])
       ELSE /\ pc' = [pc EXCEPT ![p] = "rs_check"]
            /\ req' = [req EXCEPT ![p] =
                          [kind |-> "reserve", showtime |-> st, seat_ids |-> ids,
                           watched |-> w, result |-> "running", created |-> <<>>,
                           at |-> now, ttl |-> ttl, expires_at |-> now + ttl, i |-> 1]]

\* reserve_seats, one turn of the loop up to the INSERT: the seat lookup and
\* the check for an existing reservation
RsCheck(p) ==
    /\ pc[p] = "rs_check"
    /\ UNCHANGED <<now, db>>
    /\ LET r == req[p]
           seat == r.seat_ids[r.i]
       IN  IF ~SeatExists(r.showtime, seat)
           THEN Finish(p, [r EXCEPT !.result = "unknown_seat"])
           ELSE IF ExistingReservation(holds, r.showtime, seat)
           THEN Finish(p, [r EXCEPT !.result = "unavailable"])
           ELSE /\ pc' = [pc EXCEPT ![p] = "rs_insert"]
                /\ req' = req

SeatsAfterReserveLess(seats) == seats - 1

\* reserve_seats writes SeatReservation rows only: the Showtime row, and with
\* it available_seats, is not saved
SeatsAfterReserve(seats) == seats

\* reserve_seats: SeatReservation.objects.create(...), committed at once
RsInsert(p) ==
    /\ pc[p] = "rs_insert"
    /\ UNCHANGED <<now, bookings, payments, points>>
    /\ LET r == req[p]
           seat == r.seat_ids[r.i]
       IN  IF UniqueViolation(holds, r.showtime, seat)
           THEN /\ holds' = holds
                /\ avail' = avail
                /\ Finish(p, [r EXCEPT !.result = "integrity_error"])
           ELSE /\ Len(holds) < MaxHolds
                /\ holds' = Append(holds, NewReservation(r.showtime, seat, r.expires_at))
                /\ avail' = [avail EXCEPT ![r.showtime] = SeatsAfterReserve(@)]
                /\ LET r2 == [r EXCEPT !.created = Append(@, Len(holds) + 1)]
                   IN  IF r.i = Len(r.seat_ids)
                       THEN Finish(p, [r2 EXCEPT !.result = "ok"])
                       ELSE /\ pc' = [pc EXCEPT ![p] = "rs_check"]
                            /\ req' = [req EXCEPT ![p] = [r2 EXCEPT !.i = @ + 1]]

\* ShowtimeSeatMapSerializer.get_seat_map: the seat map of a showtime is read
\* (None for a showtime without a seat layout; the view finds active
\* showtimes only)
SeatMapRequest(p, st) ==
    /\ pc[p] = "idle"
    /\ UNCHANGED <<now, db>>
    /\ IF ~IsActive(st)
       THEN Finish(p, [kind |-> "seat_map", watched |-> TRUE, showtime |-> st,
                       result |-> "not_found", seat_map |-> <<>>])
       ELSE IF ~HasLayout(st)
       THEN Finish(p, [kind |-> "seat_map", watched |-> TRUE, showtime |-> st,
                       result |-> "no_seat_map", seat_map |-> <<>>])
       ELSE Finish(p, [kind |-> "seat_map", watched |-> TRUE, showtime |-> st,
                       result |-> "ok",
                       seat_map |-> GetAvailableSeatsMap(holds, st)])

\* -------------------------------------------------------- create booking
IsAvailableWhileOnSale(st, a, t) == a > 0 /\ ShowtimeAt > t

\* Showtime.is_available
IsAvailable(st, a, t) == IsActive(st) /\ a > 0 /\ ShowtimeAt > t

CalculateSeatPriceFlat(seat) == TicketPrice

\* Showtime.calculate_seat_price: ticket_price * seat.price_multiplier
CalculateSeatPrice(seat) == (TicketPrice * PriceMultiplier(seat)) \div 100

RECURSIVE SumPrices(_)
\* BookingCreateSerializer.create: total_amount += seat_price, over the seats
SumPrices(seats) ==
    IF seats = <<>> THEN 0
    ELSE CalculateSeatPrice(Head(seats)) + SumPrices(Tail(seats))

Min(a, b) == IF a < b THEN a ELSE b

PointsDiscountUnclamped(pts, subtotal) == pts * PointValue

PointsDiscountHalf(pts, subtotal) == subtotal \div 2

\* BookingCreateSerializer.create: min(points * 0.10, total_amount * 0.50)
PointsDiscount(pts, subtotal) == Min(pts * PointValue, subtotal \div 2)

SelectedSeatsNone(hs, sel) == <<>>

RECURSIVE SelectedSeats(_, _)
\* the seat identifiers of the reservations `sel`, in the order of
\* SeatReservation.Meta.ordering (the seat's row and number)
SelectedSeats(hs, sel) ==
    IF sel = {} THEN <<>>
    ELSE LET i == CHOOSE x \in sel :
                    \A y \in sel : \/ SeatRank(hs[x].seat) < SeatRank(hs[y].seat)
                                   \/ /\ SeatRank(hs[x].seat) = SeatRank(hs[y].seat)
                                      /\ x <= y
         IN  <<hs[i].seat>> \o SelectedSeats(hs, sel \ {i})

\* SeatReservation.objects.filter(id__in=ids, showtime=showtime, status='reserved')
ReservedOf(hs, ids, st) ==
    {i \in ids : /\ i \in 1..Len(hs)
                 /\ hs[i].showtime = st
                 /\ hs[i].status = "reserved"}

\* the Booking row BookingCreateSerializer.create builds (lines 88-126)
NewBooking(c, st, n, pts, seats) ==
    LET count == IF seats = <<>> THEN n ELSE Len(seats)
        subtotal == IF seats = <<>> THEN TicketPrice * n ELSE SumPrices(seats)
        discount == PointsDiscount(pts, subtotal)
    IN  [customer |-> c, showtime |-> st, number_of_seats |-> count,
         total_amount |-> subtotal - discount,
         base_price_per_seat |-> IF seats = <<>> THEN TicketPrice ELSE subtotal \div count,
         discount_amount |-> discount, loyalty_points_used |-> pts,
         seat_numbers |-> seats, status |-> "pending",
         confirmed_at |-> NoneVal, cancelled_at |-> NoneVal]

EnoughPointsStrict(used, balance) == used < balance

\* create, line 110: if loyalty_points_used > customer.loyalty_points: raise
EnoughPoints(used, balance) == used <= balance

CreatingNow == {q \in Procs : pc[q] \in {"cb_customer", "cb_reservations", "cb_commit"}}

\* BookingCreateView.create: the field validators and
\* BookingCreateSerializer.validate, on the Showtime row read for the request
StartCreateBooking(p, c, st, n, pts, rids, w) ==
    /\ pc[p] = "idle"
    /\ UNCHANGED <<now, db>>
    /\ LET r == [kind |-> "create_booking", customer |-> c, showtime |-> st,
                 number_of_seats |-> n, loyalty_points_used |-> pts,
                 seat_reservation_ids |-> rids, watched |-> w, result |-> "running",
                 cust_points |-> NoneVal, selected |-> {}, booking |-> NoneVal]
       IN  IF n < 1 \/ n > MaxSeatsPerBooking
           THEN Finish(p, [r EXCEPT !.result = "too_many_seats"])
           ELSE IF ~IsAvailable(st, avail[st], now)
           THEN Finish(p, [r EXCEPT !.result = "showtime_unavailable"])
           ELSE IF avail[st] < n
           THEN Finish(p, [r EXCEPT !.result = "not_enough_seats"])
           ELSE IF ShowtimeAt <= now
           THEN Finish(p, [r EXCEPT !.result = "past_showtime"])
           ELSE /\ Len(bookings) + Cardinality(CreatingNow) < MaxBookings
                /\ pc' = [pc EXCEPT ![p] = "cb_customer"]
                /\ req' = [req EXCEPT ![p] = r]

\* create, line 58: customer = request.user.customer_profile (a SELECT)
CbCustomer(p) ==
    /\ pc[p] = "cb_customer"
    /\ UNCHANGED <<now, db>>
    /\ pc' = [pc EXCEPT ![p] = "cb_reservations"]
    /\ req' = [req EXCEPT ![p].cust_points = points[req[p].customer]]

\* create, lines 64-113: the reservations are read (len() runs the query),
\* checked for expiry, the price is computed and the points are checked
CbReservations(p) ==
    /\ pc[p] = "cb_reservations"
    /\ UNCHANGED <<now, db>>
    /\ LET r == req[p]
           found == ReservedOf(holds, r.seat_reservation_ids, r.showtime)
       IN  IF Cardinality(found) # Cardinality(r.seat_reservation_ids)
           THEN Finish(p, [r EXCEPT !.result = "invalid_reservations"])
           ELSE IF \E i \in found : IsExpired(holds[i], now)
           THEN Finish(p, [r EXCEPT !.result = "reservation_expired"])
           ELSE IF ~EnoughPoints(r.loyalty_points_used, r.cust_points)
           THEN Finish(p, [r EXCEPT !.result = "insufficient_points"])
           ELSE /\ pc' = [pc EXCEPT ![p] = "cb_commit"]
                /\ req' = [req EXCEPT ![p].selected = found]

ConfirmReservationKeep(h, b, t) == [h EXCEPT !.booking = b]

\* create, lines 128-132: reservation.booking = booking, then
\* SeatReservation.confirm_reservation: status and confirmed_at are set and
\* the row is saved
ConfirmReservation(h, b, t) ==
    [h EXCEPT !.status = "confirmed", !.booking = b, !.confirmed_at = t]

\* create, lines 115-139, and the commit of BookingCreateView.create: the
\* Booking is inserted, every selected reservation is saved as confirmed
\* with the booking attached, the points are written back
CbCommit(p) ==
    /\ pc[p] = "cb_commit"
    /\ UNCHANGED <<now, avail, payments>>
    /\ LET r == req[p]
           id == Len(bookings) + 1
           seats == SelectedSeats(holds, r.selected)
       IN  /\ bookings' = Append(bookings,
                  NewBooking(r.customer, r.showtime, r.number_of_seats,
                             r.loyalty_points_used, seats))
           /\ holds' = [i \in DOMAIN holds |->
                  IF i \in r.selected
                  THEN ConfirmReservation(holds[i], id, now)
                  ELSE holds[i]]
           /\ points' = IF r.loyalty_points_used > 0
                        THEN [points EXCEPT ![r.customer] =
                                 r.cust_points - r.loyalty_points_used]
                        ELSE points
           /\ Finish(p, [r EXCEPT !.result = "ok", !.booking = id])

\* --------------------------------------------------------------- payment
PaymentExistsOff(ps, b) == FALSE

\* Payment.booking is a OneToOneField: a second Payment row for a booking
\* raises IntegrityError
PaymentExists(ps, b) == \E i \in 1..Len(ps) : ps[i].booking = b

\* the INSERT of a Payment waits while another transaction holds an
\* uncommitted Payment row of the same booking
PaymentLocked(p, b) ==
    \E q \in Procs \ {p} : pc[q] = "pay_commit" /\ req[q].booking = b

\* Showtime.available_seats and Customer.loyalty_points are
\* PositiveIntegerFields: a save() of a negative value raises IntegrityError
PositiveOk(v) == v >= 0

\* Booking.confirm_booking, line 146: int(self.total_amount)
PointsEarned(total) == total \div 100

\* PaymentCreateView.create: serializer.is_valid() loads the Booking row
StartPayment(p, b, user, w) ==
    /\ pc[p] = "idle"
    /\ b \in 1..Len(bookings)
    /\ UNCHANGED <<now, db>>
    /\ pc' = [pc EXCEPT ![p] = "pay_customer"]
    /\ req' = [req EXCEPT ![p] =
                  [kind |-> "payment", booking |-> b, user |-> user,
                   watched |-> w, result |-> "running", row |-> bookings[b],
                   cust_points |-> NoneVal, seats_snapshot |-> NoneVal]]

\* PaymentCreateSerializer.create, lines 222-231: booking.customer is loaded
\* (a SELECT), its user is compared, the loaded booking's status is checked
PayCustomer(p) ==
    /\ pc[p] = "pay_customer"
    /\ UNCHANGED <<now, db>>
    /\ LET r == req[p]
       IN  IF r.row.customer # r.user
           THEN Finish(p, [r EXCEPT !.result = "not_your_booking"])
           ELSE IF r.row.status # "pending"
           THEN Finish(p, [r EXCEPT !.result = "not_pending"])
           ELSE /\ pc' = [pc EXCEPT ![p] = "pay_insert"]
                /\ req' = [req EXCEPT ![p].cust_points = points[r.row.customer]]

\* PaymentCreateSerializer.create, line 233 (the INSERT of the Payment),
\* Payment.mark_completed and Booking.confirm_booking up to line 142, where
\* self.showtime is loaded (a SELECT)
PayInsert(p) ==
    /\ pc[p] = "pay_insert"
    /\ ~PaymentLocked(p, req[p].booking)
    /\ UNCHANGED <<now, db>>
    /\ LET r == req[p]
       IN  IF PaymentExists(payments, r.booking)
           THEN Finish(p, [r EXCEPT !.result = "integrity_error"])
           ELSE /\ pc' = [pc EXCEPT ![p] = "pay_commit"]
                /\ req' = [req EXCEPT ![p].seats_snapshot = avail[r.row.showtime]]

ShouldConfirmUnlessConfirmed(status) == status # "confirmed"

ShouldConfirmAlways(status) == TRUE

\* Booking.confirm_booking, line 137: if self.status == 'pending'
ShouldConfirm(status) == status = "pending"

SeatsAfterConfirmKeep(seats, n) == seats

\* Booking.confirm_booking, line 142: available_seats -= number_of_seats
SeatsAfterConfirm(seats, n) == seats - n

\* Booking.confirm_booking, lines 138-149, on the loaded rows: the Booking
\* `row` of id b, its showtime's available_seats `seats`, its customer's
\* loyalty_points `pts`
ConfirmWrites(b, row, seats, pts) ==
    /\ avail' = [avail EXCEPT ![row.showtime] =
                    SeatsAfterConfirm(seats, row.number_of_seats)]
    /\ points' = [points EXCEPT ![row.customer] =
                     pts + PointsEarned(row.total_amount)]
    /\ bookings' = [bookings EXCEPT ![b] =
                       [row EXCEPT !.status = "confirmed", !.confirmed_at = now]]

\* Payment.mark_completed and Booking.confirm_booking on the loaded rows, and
\* the commit of PaymentCreateView.create; an IntegrityError rolls the
\* request back
PayCommit(p) ==
    /\ pc[p] = "pay_commit"
    /\ UNCHANGED <<now, holds>>
    /\ LET r == req[p]
           pay == [booking |-> r.booking, amount |-> r.row.total_amount,
                   status |-> "completed"]
       IN  IF ~ShouldConfirm(r.row.status)
           THEN /\ payments' = Append(payments, pay)
                /\ UNCHANGED <<avail, bookings, points>>
                /\ Finish(p, [r EXCEPT !.result = "ok"])
           ELSE IF ~PositiveOk(SeatsAfterConfirm(r.seats_snapshot,
                                                   r.row.number_of_seats))
           THEN /\ UNCHANGED <<avail, bookings, payments, points>>
                /\ Finish(p, [r EXCEPT !.result = "integrity_error"])
           ELSE /\ payments' = Append(payments, pay)
                /\ ConfirmWrites(r.booking, r.row, r.seats_snapshot, r.cust_points)
                /\ Finish(p, [r EXCEPT !.result = "ok"])

\* Booking.confirm_booking called on a Booking loaded for the call (as the
\* tests of bookings/tests.py call it); showtime.save() raises before
\* anything else is written
ConfirmBookingCall(p, b, w) ==
    /\ pc[p] = "idle"
    /\ b \in 1..Len(bookings)
    /\ UNCHANGED <<now, holds, payments>>
    /\ LET row == bookings[b]
           r == [kind |-> "confirm_call", booking |-> b, watched |-> w,
                 result |-> "running"]
       IN  IF ~ShouldConfirm(row.status)
           THEN /\ UNCHANGED <<avail, bookings, points>>
                /\ Finish(p, [r EXCEPT !.result = "noop"])
           ELSE IF ~PositiveOk(SeatsAfterConfirm(avail[row.showtime],
                                                   row.number_of_seats))
           THEN /\ UNCHANGED <<avail, bookings, points>>
                /\ Finish(p, [r EXCEPT !.result = "integrity_error"])
           ELSE /\ ConfirmWrites(b, row, avail[row.showtime], points[row.customer])
                /\ Finish(p, [r EXCEPT !.result = "ok"])

\* ---------------------------------------------------------------- cancel
CanCancelAnyStatus(status, t) == ShowtimeAt - t > CancelWindow

CanCancelAnyTime(status, t) == status = "confirmed"

\* Booking.can_cancel
CanCancel(status, t) == status = "confirmed" /\ ShowtimeAt - t > CancelWindow

\* views.cancel_booking, lines 201-212: the Booking is loaded with its
\* Showtime (select_related) before the transaction starts, and
\* BookingCancellationSerializer.validate checks can_cancel
StartCancel(p, b, user, w) ==
    /\ pc[p] = "idle"
    /\ b \in 1..Len(bookings)
    /\ UNCHANGED <<now, db>>
    /\ LET r == [kind |-> "cancel", booking |-> b, user |-> user,
                 watched |-> w, result |-> "running", row |-> bookings[b],
                 seats_snapshot |-> avail[bookings[b].showtime]]
       IN  IF bookings[b].customer # user
           THEN Finish(p, [r EXCEPT !.result = "not_found"])
           ELSE IF ~CanCancel(bookings[b].status, now)
           THEN Finish(p, [r EXCEPT !.result = "cannot_cancel"])
           ELSE /\ pc' = [pc EXCEPT ![p] = "cx_commit"]
                /\ req' = [req EXCEPT ![p] = r]

SeatsAfterCancelNoRestore(seats, n) == seats

\* Booking.cancel_booking, line 158: available_seats += number_of_seats
SeatsAfterCancel(seats, n) == seats + n

PointsAfterCancelRefund(pts, row) == pts + row.loyalty_points_used

\* Booking.cancel_booking saves the Showtime and the Booking only: the
\* Customer row, and with it loyalty_points, is not saved
PointsAfterCancel(pts, row) == pts

\* Booking.cancel_booking, lines 154-161, on the loaded rows
CancelWrites(b, row, seats) ==
    /\ avail' = [avail EXCEPT ![row.showtime] =
                    SeatsAfterCancel(seats, row.number_of_seats)]
    /\ points' = [points EXCEPT ![row.customer] = PointsAfterCancel(@, row)]
    /\ bookings' = [bookings EXCEPT ![b] =
                       [row EXCEPT !.status = "cancelled", !.cancelled_at = now]]

\* views.cancel_booking, lines 213-224: Booking.cancel_booking on the loaded
\* rows, and the commit
CxCommit(p) ==
    /\ pc[p] = "cx_commit"
    /\ UNCHANGED <<now, holds, payments>>
    /\ LET r == req[p]
       IN  IF CanCancel(r.row.status, now)
           THEN /\ CancelWrites(r.booking, r.row, r.seats_snapshot)
                /\ Finish(p, [r EXCEPT !.result = "ok"])
           ELSE /\ UNCHANGED <<avail, bookings, points>>
                /\ Finish(p, [r EXCEPT !.result = "cancel_failed"])

\* Booking.cancel_booking called on a Booking loaded for the call
CancelBookingCall(p, b, w) ==
    /\ pc[p] = "idle"
    /\ b \in 1..Len(bookings)
    /\ UNCHANGED <<now, holds, payments>>
    /\ LET row == bookings[b]
           r == [kind |-> "cancel_call", booking |-> b, watched |-> w,
                 result |-> "running"]
       IN  IF CanCancel(row.status, now)
           THEN /\ CancelWrites(b, row, avail[row.showtime])
                /\ Finish(p, [r EXCEPT !.result = "ok"])
           ELSE /\ UNCHANGED <<avail, bookings, points>>
                /\ Finish(p, [r EXCEPT !.result = "refused"])

CancelReservationToggle(h) ==
    [h EXCEPT !.status = IF @ = "cancelled" THEN "reserved" ELSE "cancelled"]

\* SeatReservation.cancel_reservation: self.status = 'cancelled'; self.save()
CancelReservation(h) == [h EXCEPT !.status = "cancelled"]

\* SeatReservation.cancel_reservation called on a reservation loaded for the
\* call (row: the instance as it was loaded); the method returns nothing
CancelReservationCall(p, i, w) ==
    /\ pc[p] = "idle"
    /\ i \in 1..Len(holds)
    /\ UNCHANGED <<now, avail, bookings, payments, points>>
    /\ holds' = [holds EXCEPT ![i] = CancelReservation(holds[i])]
    /\ Finish(p, [kind |-> "release_call", hold |-> i, row |-> holds[i],
                  watched |-> w, result |-> "ok"])

\* the response has been sent; the worker takes the next request
Return(p) ==
    /\ pc[p] = "done"
    /\ pc' = [pc EXCEPT ![p] = "idle"]
    /\ req' = [req EXCEPT ![p] = Idle]
    /\ UNCHANGED <<now, db>>

Tick ==
    /\ now < MaxTime
    /\ now' = now + 1
    /\ UNCHANGED <<db, pc, req>>

ReserveNext ==
    \/ \E p \in Procs, ids \in SeatIdLists, ttl \in 1..MaxTtl, st \in Showtimes :
          StartReserve(p, st, ids, ttl, TRUE)
    \/ \E p \in Procs : RsCheck(p)
    \/ \E p \in Procs : RsInsert(p)
    \/ Tick

\* two workers, each serving one reserve request, on an empty hold table
SpecReserve == Init /\ [][ReserveNext]_vars

\* the requests of the full interleaving: one customer's bookings of the
\* seat-mapped showtime
SeatLists == {<<"A1">>, <<"A1", "A2">>}

Next ==
    \/ \E p \in Procs, ids \in SeatLists, ttl \in 1..MaxTtl :
          StartReserve(p, "S1", ids, ttl, FALSE)
    \/ \E p \in Procs : RsCheck(p)
    \/ \E p \in Procs : RsInsert(p)
    \/ \E p \in Procs, rids \in SUBSET (1..2) :
          StartCreateBooking(p, "u1", "S1", 1, 0, rids, FALSE)
    \/ \E p \in Procs : CbCustomer(p)
    \/ \E p \in Procs : CbReservations(p)
    \/ \E p \in Procs : CbCommit(p)
    \/ \E p \in Procs, b \in 1..MaxBookings : StartPayment(p, b, "u1", FALSE)
    \/ \E p \in Procs : PayCustomer(p)
    \/ \E p \in Procs : PayInsert(p)
    \/ \E p \in Procs : PayCommit(p)
    \/ \E p \in Procs, b \in 1..MaxBookings : StartCancel(p, b, "u1", FALSE)
    \/ \E p \in Procs : CxCommit(p)
    \/ Tick

Spec == Init /\ [][Next]_vars

\* ------------------------------------------------- sold-by-count showtime
\* loyalty_points_used a client sends: nothing, or the whole starting balance
PointsChoices == {0, InitPoints}

\* two workers serving create-booking, payment and cancel requests of one
\* customer for the showtime without seat layout
CountNext ==
    \/ \E p \in Procs, n \in 1..MaxSeatsReq, pts \in PointsChoices :
          StartCreateBooking(p, "u1", "S2", n, pts, {}, FALSE)
    \/ \E p \in Procs : CbCustomer(p)
    \/ \E p \in Procs : CbReservations(p)
    \/ \E p \in Procs : CbCommit(p)
    \/ \E p \in Procs, b \in 1..MaxBookings : StartPayment(p, b, "u1", FALSE)
    \/ \E p \in Procs : PayCustomer(p)
    \/ \E p \in Procs : PayInsert(p)
    \/ \E p \in Procs : PayCommit(p)
    \/ \E p \in Procs, b \in 1..MaxBookings : StartCancel(p, b, "u1", FALSE)
    \/ \E p \in Procs : CxCommit(p)
    \/ Tick

SpecCount == Init /\ [][CountNext]_vars

\* two workers serving create-booking, payment and cancel requests of one
\* customer for the showtime without seat layout, without points, all within
\* the hour in which the first request arrives
PayCancelNext ==
    \/ \E p \in Procs, n \in 1..MaxSeatsReq :
          StartCreateBooking(p, "u1", "S2", n, 0, {}, FALSE)
    \/ \E p \in Procs : CbCustomer(p)
    \/ \E p \in Procs : CbReservations(p)
    \/ \E p \in Procs : CbCommit(p)
    \/ \E p \in Procs, b \in 1..MaxBookings : StartPayment(p, b, "u1", FALSE)
    \/ \E p \in Procs : PayCustomer(p)
    \/ \E p \in Procs : PayInsert(p)
    \/ \E p \in Procs : PayCommit(p)
    \/ \E p \in Procs, b \in 1..MaxBookings : StartCancel(p, b, "u1", FALSE)
    \/ \E p \in Procs : CxCommit(p)

SpecPayCancel == Init /\ [][PayCancelNext]_vars

\* ------------------------------------------------------ duplicate payment
\* one pending booking of "u1" for the showtime without seat layout exists;
\* each worker serves one payment request for it
InitPay ==
    /\ now = 0
    /\ avail = [st \in Showtimes |-> TotalSeats(st)]
    /\ holds = <<>>
    /\ \E n \in 1..MaxSeatsReq : bookings = <<NewBooking("u1", "S2", n, 0, <<>>)>>
    /\ payments = <<>>
    /\ points = [c \in Customers |-> InitPoints]
    /\ pc = [p \in Procs |-> "idle"]
    /\ req = [p \in Procs |-> Idle]

PayNext ==
    \/ \E p \in Procs : StartPayment(p, 1, "u1", TRUE)
    \/ \E p \in Procs : PayCustomer(p)
    \/ \E p \in Procs : PayInsert(p)
    \/ \E p \in Procs : PayCommit(p)
    \/ Tick

SpecPay == InitPay /\ [][PayNext]_vars

\* ------------------------------------------------------- one worker alone
\* one worker: requests of one customer for the showtime without seat layout
\* and calls of Booking.confirm_booking and Booking.cancel_booking, one
\* after the other; the caller looks at what the two methods returned
SeqNext ==
    \/ \E n \in 1..MaxSeatsReq :
          StartCreateBooking("p1", "u1", "S2", n, 0, {}, FALSE)
    \/ CbCustomer("p1")
    \/ CbReservations("p1")
    \/ CbCommit("p1")
    \/ \E b \in 1..MaxBookings : StartPayment("p1", b, "u1", FALSE)
    \/ PayCustomer("p1")
    \/ PayInsert("p1")
    \/ PayCommit("p1")
    \/ \E b \in 1..MaxBookings : StartCancel("p1", b, "u1", FALSE)
    \/ CxCommit("p1")
    \/ \E b \in 1..MaxBookings : ConfirmBookingCall("p1", b, TRUE)
    \/ \E b \in 1..MaxBookings : CancelBookingCall("p1", b, TRUE)
    \/ Return("p1")
    \/ Tick

SpecSeq == Init /\ [][SeqNext]_vars

\* --------------------------------------------- one worker, seat selection
\* loyalty_points_used a client sends with a seat booking: nothing, or a few
PartPoints == 5
SeatPointsChoices == {0, PartPoints}

\* one worker serving, one after the other, the requests of one customer:
\* reserve seats of the seat-mapped showtime, create a booking (for either
\* showtime, with or without reservations; the client looks at the answer),
\* pay, cancel
SeatSeqNext ==
    \/ \E ids \in SeatLists, ttl \in 1..MaxTtl :
          StartReserve("p1", "S1", ids, ttl, FALSE)
    \/ RsCheck("p1")
    \/ RsInsert("p1")
    \/ \E st \in Showtimes, pts \in SeatPointsChoices, rids \in SUBSET (1..2) :
          StartCreateBooking("p1", "u1", st, 1, pts, rids, TRUE)
    \/ CbCustomer("p1")
    \/ CbReservations("p1")
    \/ CbCommit("p1")
    \/ \E b \in 1..MaxBookings : StartPayment("p1", b, "u1", FALSE)
    \/ PayCustomer("p1")
    \/ PayInsert("p1")
    \/ PayCommit("p1")
    \/ \E b \in 1..MaxBookings : StartCancel("p1", b, "u1", FALSE)
    \/ CxCommit("p1")
    \/ Return("p1")
    \/ Tick

SpecSeatSeq == Init /\ [][SeatSeqNext]_vars

\* one worker: seats of the seat-mapped showtime are reserved, booked and
\* paid for, one request after the other
SeatPayNext ==
    \/ \E ids \in SeatLists : StartReserve("p1", "S1", ids, MaxTtl, FALSE)
    \/ RsCheck("p1")
    \/ RsInsert("p1")
    \/ \E pts \in SeatPointsChoices, rids \in SUBSET (1..2) :
          StartCreateBooking("p1", "u1", "S1", 1, pts, rids, FALSE)
    \/ CbCustomer("p1")
    \/ CbReservations("p1")
    \/ CbCommit("p1")
    \/ \E b \in 1..MaxBookings : StartPayment("p1", b, "u1", FALSE)
    \/ PayCustomer("p1")
    \/ PayInsert("p1")
    \/ PayCommit("p1")
    \/ Tick

SpecSeatPay == Init /\ [][SeatPayNext]_vars

\* one worker: seats are reserved, and bookings are created for either
\* showtime with some of the reservations; the client looks at the answer
SeatCreateNext ==
    \/ \E ids \in SeatLists, ttl \in 1..MaxTtl :
          StartReserve("p1", "S1", ids, ttl, FALSE)
    \/ RsCheck("p1")
    \/ RsInsert("p1")
    \/ \E st \in Showtimes, pts \in SeatPointsChoices, rids \in SUBSET (1..2) :
          StartCreateBooking("p1", "u1", st, 1, pts, rids, TRUE)
    \/ CbCustomer("p1")
    \/ CbReservations("p1")
    \/ CbCommit("p1")
    \/ Return("p1")
    \/ Tick

SpecSeatCreate == Init /\ [][SeatCreateNext]_vars

\* seat_ids lists that take the first seat, the first ten or the first eleven
\* seats of row A, or the eleventh seat alone
RowLists == {SubSeq(RowA, 1, k) : k \in {1, MaxSeatsPerBooking, MaxSeatsPerBooking + 1}}
               \cup {<<RowA[MaxSeatsPerBooking + 1]>>}
\* seat_reservation_ids a client sends: none, or the first k reservations
RowIdSets == {1..k : k \in {0, 1, MaxSeatsPerBooking, MaxSeatsPerBooking + 1}}
\* number_of_seats a client sends: at, and one over, the limit of the validator
RowCounts == {1, MaxSeatsPerBooking, MaxSeatsPerBooking + 1}

\* one worker: whole rows of seats are reserved, and bookings are created
\* with the reservations; the client looks at the answer
RowNext ==
    \/ \E ids \in RowLists, ttl \in 1..MaxTtl :
          StartReserve("p1", "S1", ids, ttl, FALSE)
    \/ RsCheck("p1")
    \/ RsInsert("p1")
    \/ \E n \in RowCounts, rids \in RowIdSets :
          StartCreateBooking("p1", "u1", "S1", n, 0, rids, TRUE)
    \/ CbCustomer("p1")
    \/ CbReservations("p1")
    \/ CbCommit("p1")
    \/ Return("p1")
    \/ Tick

SpecRow == Init /\ [][RowNext]_vars

\* what the client sends for the showtimes sold by count: one seat or five,
\* and no points, one, the whole first balance, one more than it, or the
\* balance after the award for a paid one-seat booking
PriceCounts == {1, 5}
PricePoints == {0, 1, InitPoints, InitPoints + 1,
                InitPoints + PointsEarned(TicketPrice)}

\* one worker: bookings by count are created with points and paid, one
\* request after the other; the client looks at the answer of the create
PriceNext ==
    \/ \E n \in PriceCounts, pts \in PricePoints :
          StartCreateBooking("p1", "u1", "S3", n, pts, {}, TRUE)
    \/ CbCustomer("p1")
    \/ CbReservations("p1")
    \/ CbCommit("p1")
    \/ \E b \in 1..MaxBookings : StartPayment("p1", b, "u1", FALSE)
    \/ PayCustomer("p1")
    \/ PayInsert("p1")
    \/ PayCommit("p1")
    \/ Return("p1")
    \/ Tick

SpecPrice == Init /\ [][PriceNext]_vars

\* one worker: bookings by count on a showtime on sale and on one taken off
\* sale, and their payments; the client reads the answer to each booking
\* request
AvailNext ==
    \/ \E st \in {"S2", "S4"}, n \in 1..MaxSeatsReq, pts \in PointsChoices :
          StartCreateBooking("p1", "u1", st, n, pts, {}, TRUE)
    \/ CbCustomer("p1")
    \/ CbReservations("p1")
    \/ CbCommit("p1")
    \/ \E b \in 1..MaxBookings : StartPayment("p1", b, "u1", FALSE)
    \/ PayCustomer("p1")
    \/ PayInsert("p1")
    \/ PayCommit("p1")
    \/ Return("p1")
    \/ Tick

SpecAvail == Init /\ [][AvailNext]_vars

\* one worker: bookings by count, with and without points, their payments
\* and their cancellations, by the view and by a call of cancel_booking
RefundNext ==
    \/ \E n \in 1..MaxSeatsReq, pts \in PointsChoices :
          StartCreateBooking("p1", "u1", "S2", n, pts, {}, FALSE)
    \/ CbCustomer("p1")
    \/ CbReservations("p1")
    \/ CbCommit("p1")
    \/ \E b \in 1..MaxBookings : StartPayment("p1", b, "u1", FALSE)
    \/ PayCustomer("p1")
    \/ PayInsert("p1")
    \/ PayCommit("p1")
    \/ \E b \in 1..MaxBookings : StartCancel("p1", b, "u1", FALSE)
    \/ CxCommit("p1")
    \/ \E b \in 1..MaxBookings : CancelBookingCall("p1", b, FALSE)
    \/ Tick

SpecRefund == Init /\ [][RefundNext]_vars

\* SeatReservationView.create passes customer=request.user to reserve_seats:
\* the customer whose requests the reserve requests of SpecOwner are
ReservingCustomer == "u1"

\* one worker: the reserve requests of one customer, and create-booking
\* requests of either customer naming the reservations made
OwnerNext ==
    \/ \E ids \in SeatLists : StartReserve("p1", "S1", ids, MaxTtl, FALSE)
    \/ RsCheck("p1")
    \/ RsInsert("p1")
    \/ \E c \in Customers, rids \in SUBSET (1..2) :
          StartCreateBooking("p1", c, "S1", 1, 0, rids, FALSE)
    \/ CbCustomer("p1")
    \/ CbReservations("p1")
    \/ CbCommit("p1")
    \/ Tick

SpecOwner == Init /\ [][OwnerNext]_vars

\* one worker: seats are reserved, booked, paid for and the bookings
\* cancelled, one request after the other
FrameNext ==
    \/ \E ids \in SeatLists : StartReserve("p1", "S1", ids, MaxTtl, FALSE)
    \/ RsCheck("p1")
    \/ RsInsert("p1")
    \/ \E rids \in SUBSET (1..2) :
          StartCreateBooking("p1", "u1", "S1", 1, 0, rids, FALSE)
    \/ CbCustomer("p1")
    \/ CbReservations("p1")
    \/ CbCommit("p1")
    \/ \E b \in 1..MaxBookings : StartPayment("p1", b, "u1", FALSE)
    \/ PayCustomer("p1")
    \/ PayInsert("p1")
    \/ PayCommit("p1")
    \/ \E b \in 1..MaxBookings : StartCancel("p1", b, "u1", FALSE)
    \/ CxCommit("p1")
    \/ Tick

SpecFrame == Init /\ [][FrameNext]_vars

\* one worker: seats are reserved and booked, and reservations are released
\* by calls of cancel_reservation, in any order
ReleaseNext ==
    \/ \E ids \in SeatLists, ttl \in 1..MaxTtl :
          StartReserve("p1", "S1", ids, ttl, FALSE)
    \/ RsCheck("p1")
    \/ RsInsert("p1")
    \/ \E rids \in SUBSET (1..2) :
          StartCreateBooking("p1", "u1", "S1", 1, 0, rids, FALSE)
    \/ CbCustomer("p1")
    \/ CbReservations("p1")
    \/ CbCommit("p1")
    \/ \E i \in 1..MaxHolds : CancelReservationCall("p1", i, TRUE)
    \/ Return("p1")
    \/ Tick

SpecRelease == Init /\ [][ReleaseNext]_vars

\* one worker: seats are reserved, booked, paid for, the bookings cancelled
\* and the reservations released by calls of cancel_reservation, in any order
HoldLifeNext ==
    \/ \E ids \in SeatLists : StartReserve("p1", "S1", ids, MaxTtl, FALSE)
    \/ RsCheck("p1")
    \/ RsInsert("p1")
    \/ \E rids \in SUBSET (1..2) :
          StartCreateBooking("p1", "u1", "S1", 1, 0, rids, FALSE)
    \/ CbCustomer("p1")
    \/ CbReservations("p1")
    \/ CbCommit("p1")
    \/ \E b \in 1..MaxBookings : StartPayment("p1", b, "u1", FALSE)
    \/ PayCustomer("p1")
    \/ PayInsert("p1")
    \/ PayCommit("p1")
    \/ \E b \in 1..MaxBookings : StartCancel("p1", b, "u1", FALSE)
    \/ CxCommit("p1")
    \/ \E i \in 1..MaxHolds : CancelReservationCall("p1", i, FALSE)
    \/ Tick

SpecHoldLife == Init /\ [][HoldLifeNext]_vars

\* seats are reserved and booked by one worker while another serves the
\* requests for the seat map
SeatMapNext ==
    \/ \E ids \in SeatLists, ttl \in 1..MaxTtl :
          StartReserve("p1", "S1", ids, ttl, FALSE)
    \/ RsCheck("p1")
    \/ RsInsert("p1")
    \/ \E rids \in SUBSET (1..2) :
          StartCreateBooking("p1", "u1", "S1", 1, 0, rids, FALSE)
    \/ CbCustomer("p1")
    \/ CbReservations("p1")
    \/ CbCommit("p1")
    \/ \E st \in Showtimes : SeatMapRequest("p2", st)
    \/ Return("p2")
    \/ Tick

SpecSeatMap == Init /\ [][SeatMapNext]_vars

\* ================================================================ claims
Range(s) == {s[i] : i \in 1..Len(s)}

\* a live hold: reserved and not expired at time t, or confirmed
IsLive(h, t) ==
    \/ h.status = "reserved" /\ ~IsExpired(h, t)
    \/ h.status = "confirmed"

ReserveDone(p) == pc[p] = "done" /\ req[p].kind = "reserve"

\* every identifier names a seat of the layout, and none is listed twice
ValidSeatList(st, ids) ==
    /\ \A k \in 1..Len(ids) : SeatExists(st, ids[k])
    /\ \A k, m \in 1..Len(ids) : ids[k] = ids[m] => k = m

\* C1: of two reserve requests for the same showtime whose seat lists
\* overlap (valid seats, no hold expired yet), exactly one succeeds and the
\* other fails on the seat conflict (the ValueError of the availability
\* check or the IntegrityError of the unique constraint).
C1_ExactlyOneSucceeds ==
    \A p, q \in Procs :
        ( /\ p # q
          /\ ReserveDone(p) /\ ReserveDone(q)
          /\ req[p].showtime = req[q].showtime
          /\ ValidSeatList(req[p].showtime, req[p].seat_ids)
          /\ ValidSeatList(req[q].showtime, req[q].seat_ids)
          /\ Range(req[p].seat_ids) \cap Range(req[q].seat_ids) # {}
          /\ now <= req[p].expires_at /\ now <= req[q].expires_at )
        => \/ /\ req[p].result = "ok"
              /\ req[q].result \in {"unavailable", "integrity_error"}
           \/ /\ req[q].result = "ok"
              /\ req[p].result \in {"unavailable", "integrity_error"}

\* C3: a reserve request (of distinct seats) that failed, on an unknown seat
\* or on a seat already held, has left none of its holds behind.
C3_AllOrNothing ==
    \A p \in Procs :
        ( /\ ReserveDone(p)
          /\ req[p].result # "ok"
          /\ \A k, m \in 1..Len(req[p].seat_ids) :
                 req[p].seat_ids[k] = req[p].seat_ids[m] => k = m )
        => \A k \in 1..Len(req[p].created) : req[p].created[k] \notin DOMAIN holds

\* C4: a reserve request for one seat is refused as unavailable only if the
\* seat has a hold that was live when the request was made; a hold that had
\* expired by then does not stand in its way.
C4_ExpiredHoldIsNotLive ==
    \A p \in Procs :
        ( /\ ReserveDone(p)
          /\ Len(req[p].seat_ids) = 1
          /\ req[p].result \in {"unavailable", "integrity_error"} )
        => \E i \in DOMAIN holds :
              /\ holds[i].showtime = req[p].showtime
              /\ holds[i].seat = req[p].seat_ids[1]
              /\ IsLive(holds[i], req[p].at)

\* C2: in every reachable state a seat of a showtime has at most one live
\* hold (reserved and not expired, or confirmed).
C2_OneLiveHoldPerSeat ==
    \A i, j \in DOMAIN holds :
        ( /\ i # j
          /\ holds[i].showtime = holds[j].showtime
          /\ holds[i].seat = holds[j].seat )
        => ~(IsLive(holds[i], now) /\ IsLive(holds[j], now))

\* a request passed the availability check and is about to insert a hold
\* for a seat that another request has taken with a live hold meanwhile
C2_ContendedSeat ==
    \E p \in Procs :
        /\ pc[p] = "rs_insert"
        /\ \E i \in DOMAIN holds :
              /\ holds[i].showtime = req[p].showtime
              /\ holds[i].seat = req[p].seat_ids[req[p].i]
              /\ IsLive(holds[i], now)

\* ids of the bookings of showtime st that satisfy the test T
BookingsOf(st, T(_)) ==
    {b \in DOMAIN bookings : bookings[b].showtime = st /\ T(bookings[b])}

RECURSIVE SeatCount(_)
\* the seat counts of the bookings S, added up
SeatCount(S) ==
    IF S = {} THEN 0
    ELSE LET b == CHOOSE x \in S : TRUE
         IN  bookings[b].number_of_seats + SeatCount(S \ {b})

WasConfirmed(row) == row.confirmed_at # NoneVal
IsCancelled(row) == row.status = "cancelled"
IsConfirmed(row) == row.status = "confirmed"

\* C5: available_seats of a showtime stays within 0..total_seats under any
\* interleaving of create_booking, confirm_booking and cancel_booking.
C5_SeatsWithinBounds ==
    \A st \in Showtimes : 0 <= avail[st] /\ avail[st] <= TotalSeats(st)

\* C6: after any sequence of confirm_booking and cancel_booking calls on the
\* showtime without seat layout, available_seats = total_seats - (seats of
\* the bookings that were confirmed) + (seats of the bookings cancelled).
C6_SeatsAccounting ==
    avail["S2"] = TotalSeats("S2") - SeatCount(BookingsOf("S2", WasConfirmed))
                                   + SeatCount(BookingsOf("S2", IsCancelled))

\* a booking of the showtime is confirmed and another one is cancelled
C6_ConfirmedAndCancelled ==
    /\ BookingsOf("S2", IsConfirmed) # {}
    /\ BookingsOf("S2", IsCancelled) # {}

\* C7: confirm_booking called on a booking that is already confirmed raises
\* nothing and changes neither the booking (status, confirmed_at) nor
\* available_seats nor the customer's loyalty_points.
C7_ConfirmIdempotent ==
    [][\A p \in Procs :
          ( /\ pc[p] = "idle" /\ pc'[p] = "done"
            /\ req'[p].kind = "confirm_call"
            /\ bookings[req'[p].booking].status = "confirmed" )
          => (req'[p].result = "noop" /\ UNCHANGED db)]_vars

\* confirm_booking has returned from a call on a confirmed booking
C7_SecondConfirmDone ==
    \E p \in Procs :
        /\ pc[p] = "done"
        /\ req[p].kind = "confirm_call"
        /\ req[p].result = "noop"
        /\ bookings[req[p].booking].status = "confirmed"

PaymentDone(p) == pc[p] = "done" /\ req[p].kind = "payment"

C9_NoSeatBookedTwice ==
    \A a, b \in DOMAIN bookings :
        ( /\ a # b
          /\ bookings[a].showtime = bookings[b].showtime
          /\ bookings[a].status # "cancelled"
          /\ bookings[b].status # "cancelled" )
        => Range(bookings[a].seat_numbers) \cap Range(bookings[b].seat_numbers) = {}

RECURSIVE PointsUsed(_)
\* loyalty_points_used of the bookings S, added up
PointsUsed(S) ==
    IF S = {} THEN 0
    ELSE LET b == CHOOSE x \in S : TRUE
         IN  bookings[b].loyalty_points_used + PointsUsed(S \ {b})

RECURSIVE PointsAwarded(_)
\* the points the confirmations of the bookings S have awarded at most
PointsAwarded(S) ==
    IF S = {} THEN 0
    ELSE LET b == CHOOSE x \in S : TRUE
         IN  (IF WasConfirmed(bookings[b])
              THEN PointsEarned(bookings[b].total_amount) ELSE 0)
             + PointsAwarded(S \ {b})

\* C10: a customer's balance is never negative, and the bookings of the
\* customer have not used more points than the customer ever had (the
\* starting balance and the points awarded at confirmations).
C10_NoOverspend ==
    \A c \in Customers :
        LET mine == {b \in DOMAIN bookings : bookings[b].customer = c}
        IN  /\ points[c] >= 0
            /\ PointsUsed(mine) <= InitPoints + PointsAwarded(mine)

\* the holds of showtime st on the seats of the list `seats`
HoldsOn(st, seats) ==
    {i \in DOMAIN holds : holds[i].showtime = st /\ holds[i].seat \in Range(seats)}

\* C11: once a booking made from seat holds is cancelled, none of its seats
\* has a live hold for the showtime (so that the seats can be reserved again).
C11_CancelReleasesHolds ==
    \A b \in DOMAIN bookings :
        (IsCancelled(bookings[b]) /\ bookings[b].seat_numbers # <<>>)
        => \A i \in HoldsOn(bookings[b].showtime, bookings[b].seat_numbers) :
               ~IsLive(holds[i], now)

\* a call of Booking.cancel_booking by worker p returns in this step
CancelCallReturns(p) ==
    pc[p] = "idle" /\ pc'[p] = "done" /\ req'[p].kind = "cancel_call"

\* C12: on the showtime without seat layout, a confirmed booking that is
\* cancelled gives its seats back (available_seats is again what it was
\* before the confirmation); cancel_booking on the cancelled booking returns
\* False and adds nothing.
C12_ConfirmCancelRoundTrip ==
    /\ [](\A b \in DOMAIN bookings :
            (bookings[b].showtime = "S2" /\ BookingsOf("S2", WasConfirmed) = {b})
            => /\ IsConfirmed(bookings[b])
                  => avail["S2"] = TotalSeats("S2") - bookings[b].number_of_seats
               /\ IsCancelled(bookings[b]) => avail["S2"] = TotalSeats("S2"))
    /\ [][\A p \in Procs :
            CancelCallReturns(p)
            => LET b == req'[p].booking
                   st == bookings[b].showtime
               IN  /\ req'[p].result = "ok"
                      => avail'[st] = avail[st] + bookings[b].number_of_seats
                   /\ IsCancelled(bookings[b])
                      => req'[p].result = "refused" /\ UNCHANGED db]_vars

\* cancel_booking has returned False for a booking cancelled before
C12_SecondCancelRefused ==
    \E p \in Procs :
        /\ pc[p] = "done"
        /\ req[p].kind = "cancel_call"
        /\ req[p].result = "refused"
        /\ IsCancelled(bookings[req[p].booking])
        /\ avail["S2"] = TotalSeats("S2")

\* C13: cancel_booking cancels only a confirmed booking, and only more than
\* 2 hours before the showtime starts; in every other case it returns False
\* without raising and changes nothing (status, cancelled_at and
\* available_seats stay as they were).
C13_CancelOnlyWhenAllowed ==
    [][\A p \in Procs :
          CancelCallReturns(p)
          => LET b == req'[p].booking
                 allowed == /\ bookings[b].status = "confirmed"
                            /\ ShowtimeAt - now > CancelWindow
             IN  /\ allowed => /\ req'[p].result = "ok"
                               /\ bookings'[b].status = "cancelled"
                               /\ bookings'[b].cancelled_at = now
                 /\ ~allowed => /\ req'[p].result = "refused"
                                /\ UNCHANGED db]_vars

\* cancel_booking has returned False for a confirmed booking: the showtime
\* was 2 hours away or less
C13_TooLateToCancel ==
    \E p \in Procs :
        /\ pc[p] = "done"
        /\ req[p].kind = "cancel_call"
        /\ req[p].result = "refused"
        /\ IsConfirmed(bookings[req[p].booking])
        /\ ShowtimeAt - now <= CancelWindow

\* booking b goes from pending to confirmed in this step
BecomesConfirmed(b) ==
    bookings[b].status = "pending" /\ bookings'[b].status = "confirmed"

\* C14 as claimed: the confirmation of a booking made from seat holds leaves
\* available_seats of its showtime as it was.
C14_SeatMappedConfirmKeepsCounter ==
    [][\A b \in DOMAIN bookings :
          (BecomesConfirmed(b) /\ bookings[b].seat_numbers # <<>>)
          => avail'[bookings[b].showtime] = avail[bookings[b].showtime]]_vars

\* C14: the confirmation of a booking made from seat holds is the
\* confirmation of any booking: available_seats is saved as the value the
\* request loaded less number_of_seats, and no hold changes.
C14_SeatMappedConfirmLowersCounter ==
    [][\A b \in DOMAIN bookings :
          (BecomesConfirmed(b) /\ bookings[b].seat_numbers # <<>>)
          => /\ UNCHANGED holds
             /\ \E p \in Procs :
                   /\ pc[p] = "pay_commit"
                   /\ req[p].booking = b
                   /\ avail'[bookings[b].showtime] =
                         req[p].seats_snapshot - bookings[b].number_of_seats]_vars

\* a booking made from seat holds is confirmed and the counter is lower
C14_SeatBookingConfirmed ==
    \E b \in DOMAIN bookings :
        /\ IsConfirmed(bookings[b])
        /\ bookings[b].seat_numbers # <<>>
        /\ avail[bookings[b].showtime] < TotalSeats(bookings[b].showtime)

\* C15: the step that confirms a pending booking raises the loyalty_points of
\* its customer by exactly floor(total_amount), total_amount being the total
\* after the discount (in cents here, so floor is the division by 100).
C15_ConfirmAwardsFloorOfTotal ==
    [][\A b \in DOMAIN bookings :
          BecomesConfirmed(b)
          => points'[bookings[b].customer] =
                points[bookings[b].customer] + (bookings[b].total_amount \div 100)]_vars

\* C16 as claimed: a hold attached to a booking stays reserved while the
\* booking is pending; create_booking leaves the holds it references reserved.
C16_HoldsReservedUntilConfirm ==
    \A i \in DOMAIN holds :
        (holds[i].booking # NoneVal /\ bookings[holds[i].booking].status = "pending")
        => holds[i].status = "reserved"

\* C16, amended: create_booking itself confirms the holds it references, so a
\* hold attached to a booking is confirmed whatever the booking's status, and
\* the step that confirms the booking leaves every hold as it was.
C16_HoldsConfirmedAtCreate ==
    /\ [](\A i \in DOMAIN holds :
            holds[i].booking # NoneVal => holds[i].status = "confirmed")
    /\ [][(\E b \in DOMAIN bookings : BecomesConfirmed(b)) => holds' = holds]_vars

\* a seat booking was paid and confirmed, its hold confirmed since the creation
C16_PaidWithConfirmedHold ==
    \E i \in DOMAIN holds :
        /\ holds[i].booking # NoneVal
        /\ bookings[holds[i].booking].status = "confirmed"
        /\ holds[i].confirmed_at < bookings[holds[i].booking].confirmed_at

\* the step in which the create-booking request of worker p commits
CreateCommits(p) ==
    /\ pc[p] = "cb_commit"
    /\ pc'[p] # "cb_commit"
    /\ Len(bookings') = Len(bookings) + 1

\* C17: when a create-booking request that names reservations succeeds, every
\* reservation it names is confirmed and attached to the booking just created,
\* and the seat_numbers of that booking are the identifiers of the seats of
\* those reservations, one for each.
C17_ReservationsConfirmedAndLinked ==
    [][\A p \in Procs :
          (CreateCommits(p) /\ req[p].seat_reservation_ids # {})
          => LET ids == req[p].seat_reservation_ids
                 b == Len(bookings')
             IN  /\ \A i \in ids : /\ holds'[i].status = "confirmed"
                                   /\ holds'[i].booking = b
                 /\ Range(bookings'[b].seat_numbers) = {holds[i].seat : i \in ids}
                 /\ Len(bookings'[b].seat_numbers) = Cardinality(ids)]_vars

\* the client holds the answer of a booking made with two reservations
C17_BookedTwoSeats ==
    \E p \in Procs :
        /\ pc[p] = "done"
        /\ req[p].kind = "create_booking"
        /\ req[p].result = "ok"
        /\ Len(bookings[req[p].booking].seat_numbers) = 2
        /\ \A i \in 1..2 : /\ holds[i].booking = req[p].booking
                            /\ holds[i].status = "confirmed"

\* reservation i cannot be booked for showtime st at time t: it does not
\* exist, is of another showtime, is not in status reserved, or has expired
Unbookable(i, st, t) ==
    \/ i \notin DOMAIN holds
    \/ holds[i].showtime # st
    \/ holds[i].status # "reserved"
    \/ t > holds[i].expires_at

CreateFailures == {"invalid_reservations", "reservation_expired"}

\* C18: when create_booking examines the reservations it was given and one of
\* them is expired, not reserved or of another showtime, the request fails,
\* and no booking, no points balance and no reservation has changed.
C18_BadReservationFailsCleanly ==
    [][\A p \in Procs :
          ( /\ pc[p] = "cb_reservations"
            /\ pc'[p] # "cb_reservations"
            /\ \E i \in req[p].seat_reservation_ids :
                   Unbookable(i, req[p].showtime, now) )
          => /\ pc'[p] \in {"done", "idle"}
             /\ pc'[p] = "done" => req'[p].result \in CreateFailures
             /\ db' = db]_vars

\* the client holds the refusal of a request that named an expired
\* reservation, next to a booking made earlier with the other one
C18_ExpiredRefused ==
    \E p \in Procs :
        /\ pc[p] = "done"
        /\ req[p].kind = "create_booking"
        /\ req[p].result = "reservation_expired"
        /\ Len(bookings) = 1
        /\ \E i \in DOMAIN holds :
               holds[i].status = "reserved" /\ now > holds[i].expires_at

\* C19: every Booking row has between 1 and 10 seats, also when the number
\* of seats was taken from the reservations instead of the client's value.
C19_SeatsPerBookingCapped ==
    \A b \in DOMAIN bookings :
        /\ 1 <= bookings[b].number_of_seats
        /\ bookings[b].number_of_seats <= MaxSeatsPerBooking

\* C20: the seat map computed for a showtime reports a seat as not available
\* exactly when the seat has a live hold for the showtime (reserved and not
\* expired, or confirmed) or the seat is inactive; so a seat whose only hold
\* has expired is reported as available.
C20_MapShowsLiveHoldsOnly ==
    [][\A p \in Procs :
          (pc[p] = "idle" /\ pc'[p] = "done" /\ req'[p].kind = "seat_map"
              /\ req'[p].result = "ok")
          => \A seat \in LayoutSeats :
                req'[p].seat_map[seat] =
                    ~( \/ \E i \in DOMAIN holds :
                             /\ holds[i].showtime = req'[p].showtime
                             /\ holds[i].seat = seat
                             /\ IsLive(holds[i], now)
                       \/ ~SeatIsActive(seat) )]_vars

\* the total before the discount of a Booking row
Subtotal(row) == row.total_amount + row.discount_amount

\* C21: in every booking the discount is the smaller of the value of the
\* points used (0.10 each) and half of the total before the discount, so it
\* never exceeds that half; points worth more than the half are accepted and
\* the discount is cut down to it.
C21_DiscountIsClampedMin ==
    \A b \in DOMAIN bookings :
        LET row == bookings[b]
            value == row.loyalty_points_used * PointValue
            half == Subtotal(row) \div 2
        IN  /\ row.discount_amount = (IF value < half THEN value ELSE half)
            /\ 2 * row.discount_amount <= Subtotal(row)

\* a booking was accepted with points worth more than half of its price
C21_ClampedBooking ==
    \E b \in DOMAIN bookings :
        /\ bookings[b].loyalty_points_used * PointValue > bookings[b].discount_amount
        /\ 2 * bookings[b].discount_amount = Subtotal(bookings[b])

RECURSIVE PriceOfSeats(_)
\* ticket_price * price_multiplier, added up over a list of seat identifiers
PriceOfSeats(seats) ==
    IF seats = <<>> THEN 0
    ELSE (TicketPrice * PriceMultiplier(Head(seats))) \div 100
            + PriceOfSeats(Tail(seats))

\* the price of a Booking row before the discount, from its seats or, without
\* seats, from its number of seats
ExpectedSubtotal(row) ==
    IF row.seat_numbers = <<>> THEN TicketPrice * row.number_of_seats
    ELSE PriceOfSeats(row.seat_numbers)

FiveSeatsAllPoints(row) ==
    /\ ~HasLayout(row.showtime)
    /\ row.number_of_seats = 5
    /\ row.loyalty_points_used = InitPoints

\* C23 as claimed: five seats at 10.00 booked with the whole balance of 50
\* points get a discount of half the price, 25.00, and a total of 25.00.
C23_FiveSeatsHalfOff ==
    \A b \in DOMAIN bookings :
        FiveSeatsAllPoints(bookings[b])
        => /\ bookings[b].discount_amount = (5 * TicketPrice) \div 2
           /\ bookings[b].total_amount = (5 * TicketPrice) \div 2

\* C23, amended: five seats at 10.00 booked with the whole balance of 50
\* points get the value of the points as discount, 5.00 (0.10 a point, below
\* the cap of 25.00), and a total of 45.00.
C23_FiveSeatsPointsValueOff ==
    \A b \in DOMAIN bookings :
        FiveSeatsAllPoints(bookings[b])
        => /\ bookings[b].discount_amount = InitPoints * PointValue
           /\ bookings[b].total_amount = 5 * TicketPrice - InitPoints * PointValue

\* the booking of the scenario exists and the points are spent
C23_FiveSeatsBooked ==
    \E b \in DOMAIN bookings :
        /\ FiveSeatsAllPoints(bookings[b])
        /\ Subtotal(bookings[b]) = 5 * TicketPrice
        /\ points[bookings[b].customer] = 0

\* C24: a create_booking request whose loyalty_points_used equals the balance
\* it read for the customer goes on to create the booking; one whose
\* loyalty_points_used is that balance plus one fails with the
\* insufficient-points error, and no booking, balance or reservation changes.
C24_PointsBoundary ==
    [][\A p \in Procs :
          /\ ( /\ pc[p] = "cb_reservations"
               /\ pc'[p] # "cb_reservations"
               /\ req[p].seat_reservation_ids = {} )
             => /\ req[p].loyalty_points_used = req[p].cust_points
                      => pc'[p] = "cb_commit"
                /\ req[p].loyalty_points_used = req[p].cust_points + 1
                      => /\ pc'[p] \in {"done", "idle"}
                         /\ pc'[p] = "done"
                               => req'[p].result = "insufficient_points"
                         /\ db' = db
          /\ (pc[p] = "cb_commit" /\ pc'[p] # "cb_commit")
             => /\ Len(bookings') = Len(bookings) + 1
                /\ pc'[p] = "done" => req'[p].result = "ok"]_vars

\* the customer spent the whole balance on one booking, and the next
\* request, with one point, was refused
C24_OnePointTooMany ==
    \E p \in Procs :
        /\ pc[p] = "done"
        /\ req[p].kind = "create_booking"
        /\ req[p].result = "insufficient_points"
        /\ Len(bookings) = 1
        /\ bookings[1].loyalty_points_used = InitPoints
        /\ points[bookings[1].customer] = 0

\* C25: the step in which a create_booking request succeeds adds the booking
\* with status pending, lowers the loyalty_points of the customer by exactly
\* the loyalty_points_used of the request (also when the discount was cut to
\* half the price) and leaves every available_seats as it was.
C25_CreateDeductsPointsOnly ==
    [][\A p \in Procs :
          CreateCommits(p)
          => LET c == req[p].customer
             IN  /\ bookings'[Len(bookings')].status = "pending"
                 /\ points'[c] = points[c] - req[p].loyalty_points_used
                 /\ \A d \in Customers \ {c} : points'[d] = points[d]
                 /\ avail' = avail]_vars

StatusMoves ==
    {<<"pending", "confirmed">>, <<"pending", "cancelled">>,
     <<"confirmed", "cancelled">>, <<"confirmed", "refunded">>}

\* C26: the status of a booking changes only from pending to confirmed or
\* cancelled and from confirmed to cancelled or refunded; a cancelled or
\* refunded booking keeps its status whatever is called on it.
C26_StatusMovesForwardOnly ==
    [][\A b \in DOMAIN bookings :
          \/ bookings'[b].status = bookings[b].status
          \/ <<bookings[b].status, bookings'[b].status>> \in StatusMoves]_vars

\* confirm_booking was called on a cancelled booking, which is still cancelled
C26_ConfirmAfterCancel ==
    \E p \in Procs :
        /\ pc[p] = "done"
        /\ req[p].kind = "confirm_call"
        /\ bookings[req[p].booking].status = "cancelled"

\* C27: confirm_booking called on a cancelled or refunded booking ends with
\* an error (it neither confirms nor returns as if nothing was wrong), and
\* no booking, available_seats or loyalty_points changes.
C27_ConfirmOnCancelledRaises ==
    [][\A p \in Procs :
          ( /\ pc[p] = "idle"
            /\ pc'[p] = "done"
            /\ req'[p].kind = "confirm_call"
            /\ bookings[req'[p].booking].status \in {"cancelled", "refunded"} )
          => /\ req'[p].result \notin {"ok", "noop"}
             /\ db' = db]_vars

\* C28: no reservation is moved to confirmed at a time after its expires_at.
C28_NoExpiredHoldConfirmed ==
    [][\A i \in DOMAIN holds :
          (holds[i].status = "reserved" /\ holds'[i].status = "confirmed")
          => ~(now > holds[i].expires_at)]_vars

\* C29: reserve looks for unknown seats before it looks for held ones: the
\* answer to a request for a showtime with a seat layout that names a seat
\* the layout does not have is the unknown-seat error, wherever that seat
\* stands in the list and whether or not another seat of the list is held.
C29_UnknownSeatReportedFirst ==
    \A p \in Procs :
        ( /\ ReserveDone(p)
          /\ HasLayout(req[p].showtime)
          /\ \E k \in DOMAIN req[p].seat_ids :
                 req[p].seat_ids[k] \notin LayoutSeats )
        => req[p].result = "unknown_seat"

\* C30: is_expired is true of a reservation exactly when its status is
\* reserved and the time is after expires_at: it is false at the instant
\* expires_at itself, and false of a confirmed or cancelled reservation at
\* any time.
C30_ExpiredIffReservedAndLate ==
    \A i \in DOMAIN holds :
        LET h == holds[i]
        IN  /\ h.status \in {"confirmed", "cancelled"} => ~IsExpired(h, now)
            /\ (h.status = "reserved" /\ now <= h.expires_at) => ~IsExpired(h, now)
            /\ (h.status = "reserved" /\ now > h.expires_at) => IsExpired(h, now)

\* long after both were due, one reservation is confirmed and the other is
\* still reserved
C30_LateConfirmedAndLateReserved ==
    \E i, j \in DOMAIN holds :
        /\ holds[i].status = "confirmed" /\ now > holds[i].expires_at + 1
        /\ holds[j].status = "reserved" /\ now > holds[j].expires_at + 1

\* the step in which cancel_reservation is called by worker p on reservation i
Releases(p, i) ==
    /\ pc[p] = "idle"
    /\ pc'[p] = "done"
    /\ req'[p].kind = "release_call"
    /\ req'[p].hold = i

\* C31: cancel_reservation moves a reserved or confirmed reservation to
\* cancelled and changes nothing else; called on a reservation that is
\* already cancelled it leaves every reservation and every counter as it was.
C31_ReleaseIsIdempotent ==
    [][\A p \in Procs, i \in DOMAIN holds :
          Releases(p, i)
          => /\ holds'[i].status = "cancelled"
             /\ \A j \in DOMAIN holds : j # i => holds'[j] = holds[j]
             /\ holds'[i] = [holds[i] EXCEPT !.status = "cancelled"]
             /\ <<avail, bookings, payments, points>>' =
                    <<avail, bookings, payments, points>>
             /\ holds[i].status = "cancelled" => holds' = holds]_vars

\* a reservation that had been confirmed by a booking was released, and then
\* released once more
C31_ReleasedTwice ==
    \E p \in Procs :
        /\ pc[p] = "done"
        /\ req[p].kind = "release_call"
        /\ req[p].row.status = "cancelled"
        /\ req[p].row.booking # NoneVal
        /\ holds[req[p].hold].status = "cancelled"

\* C32: a reserve request that succeeded for N seats created N reservations,
\* one for each seat of the request, each with status reserved, without
\* booking, and all with expires_at = the time of the request + its ttl.
C32_OneHoldPerSeat ==
    \A p \in Procs :
        (ReserveDone(p) /\ req[p].result = "ok")
        => LET r == req[p]
           IN  /\ Len(r.created) = Len(r.seat_ids)
               /\ \A k, m \in DOMAIN r.created : k # m => r.created[k] # r.created[m]
               /\ \A k \in DOMAIN r.created :
                     LET h == holds[r.created[k]]
                     IN  /\ h.showtime = r.showtime
                         /\ h.seat = r.seat_ids[k]
                         /\ h.status = "reserved"
                         /\ h.booking = NoneVal
                         /\ h.expires_at = r.at + r.ttl

\* two seats were reserved by one request that took some time: the clock
\* moved between the request and its end
C32_TwoSeatsReserved ==
    \E p \in Procs :
        /\ ReserveDone(p)
        /\ req[p].result = "ok"
        /\ Len(req[p].created) = 2
        /\ now > req[p].at

\* worker p ends a confirm_booking or a cancel_booking in this step
ConfirmOrCancelEnds(p) ==
    \/ pc[p] \in {"pay_commit", "cx_commit"} /\ pc'[p] # pc[p]
    \/ /\ pc[p] = "idle"
       /\ pc'[p] = "done"
       /\ req'[p].kind \in {"confirm_call", "cancel_call"}

\* C33: no step of a reserve request, successful or not, changes an
\* available_seats; a step that changes one ends a confirm_booking or a
\* cancel_booking.
C33_CountersOnlyByConfirmAndCancel ==
    [][/\ \A p \in Procs :
             (pc[p] \in {"rs_check", "rs_insert"} /\ pc'[p] # pc[p]) => avail' = avail
       /\ avail' # avail => \E p \in Procs : ConfirmOrCancelEnds(p)]_vars

\* seats are reserved, the booking made with one of them was confirmed and
\* cancelled, and the counter is back where it started
C33_ReservedConfirmedCancelled ==
    /\ Len(holds) = 2
    /\ \E b \in DOMAIN bookings :
          /\ bookings[b].status = "cancelled"
          /\ bookings[b].showtime = "S1"
    /\ avail["S1"] = TotalSeats("S1")

ValidateRejections ==
    {"too_many_seats", "showtime_unavailable", "not_enough_seats", "past_showtime"}

\* C34: a create-booking request for a showtime without a seat map that asks
\* for more seats than available_seats, or names a showtime that is inactive,
\* sold out or already started, ends at validation with a rejection, and
\* nothing in the database has changed (no booking, no points deducted).
C34_UnavailableShowtimeRejected ==
    [][\A st \in Showtimes, n \in 1..MaxSeatsReq, pts \in PointsChoices :
          ( /\ StartCreateBooking("p1", "u1", st, n, pts, {}, TRUE)
            /\ ~HasLayout(st)
            /\ \/ n > avail[st]
               \/ ~IsActive(st)
               \/ avail[st] = 0
               \/ ShowtimeAt <= now )
          => /\ pc'["p1"] = "done"
             /\ req'["p1"].result \in ValidateRejections
             /\ req'["p1"].booking = NoneVal
             /\ db' = db]_vars

\* the showtime is sold out before it starts and the client holds a
\* rejection; the two bookings made while seats were left are all there are
C34_SoldOutRejected ==
    /\ pc["p1"] = "done"
    /\ req["p1"].kind = "create_booking"
    /\ req["p1"].result = "showtime_unavailable"
    /\ avail["S2"] = 0
    /\ now < ShowtimeAt
    /\ Len(bookings) = 2

\* the booking b has a completed payment
HasCompletedPayment(b) ==
    \E i \in DOMAIN payments :
        payments[i].booking = b /\ payments[i].status = "completed"

ConfirmedBookingsArePaid ==
    \A b \in DOMAIN bookings :
        bookings[b].status = "confirmed" => HasCompletedPayment(b)

PaymentsOnlyForPending ==
    [][\A i \in DOMAIN payments' :
          i \notin DOMAIN payments
              => bookings[payments'[i].booking].status = "pending"]_vars

\* C35: through create-booking, payment and cancel requests, a booking whose
\* status is confirmed has a completed payment, and a payment is created only
\* for a booking that is pending when the payment is created.
C35_ConfirmedOnlyThroughPayment ==
    []ConfirmedBookingsArePaid /\ PaymentsOnlyForPending

\* one booking was paid for and then cancelled, the other is confirmed, and
\* each has its payment
C35_PaidConfirmedAndCancelled ==
    /\ Len(payments) = 2
    /\ \E b, c \in DOMAIN bookings :
          /\ bookings[b].status = "confirmed"
          /\ bookings[c].status = "cancelled"
          /\ HasCompletedPayment(b)
          /\ HasCompletedPayment(c)

\* worker p ends a cancel_booking in this step
CancelEnds(p) ==
    \/ pc[p] = "cx_commit" /\ pc'[p] # pc[p]
    \/ pc[p] = "idle" /\ \E b \in DOMAIN bookings : CancelBookingCall(p, b, FALSE)

\* C36: a step in which cancel_booking runs leaves every customer's
\* loyalty_points as they were: the points the booking used are not given
\* back and the points its confirmation awarded are not taken away.
C36_CancelKeepsPoints ==
    [][\A p \in Procs : CancelEnds(p) => points' = points]_vars

\* a booking paid for with points was confirmed and then cancelled: the
\* customer is left with the points the confirmation awarded
C36_CancelledAfterPoints ==
    /\ Len(bookings) = 1
    /\ bookings[1].status = "cancelled"
    /\ bookings[1].loyalty_points_used = InitPoints
    /\ points["u1"] = PointsEarned(bookings[1].total_amount)
    /\ points["u1"] > 0

\* C37: when the confirmations of two different bookings of the showtime
\* without seat layout have both been committed, whether one after the other
\* or at the same time, available_seats has gone down by the sum of the two
\* bookings' number_of_seats.
C37_ConcurrentConfirmsAddUp ==
    ( /\ Len(bookings) = 2
      /\ \A b \in DOMAIN bookings :
            bookings[b].showtime = "S2" /\ bookings[b].status = "confirmed" )
    => avail["S2"] = TotalSeats("S2") - (bookings[1].number_of_seats
                                         + bookings[2].number_of_seats)

\* C38: a booking that took over reservations belongs to the customer who
\* reserved them: no other customer's create-booking request turns the hold
\* into a booking.
C38_HoldBookedByItsReserverOnly ==
    \A b \in DOMAIN bookings :
        (\E i \in DOMAIN holds : holds[i].booking = b)
            => bookings[b].customer = ReservingCustomer

HoldMoves ==
    {<<"reserved", "confirmed">>, <<"reserved", "cancelled">>,
     <<"reserved", "expired">>, <<"confirmed", "cancelled">>}

\* the state of a reservation at time t: expired is the state of a reserved
\* reservation whose time has run out, the others are the stored status
HoldState(h, t) == IF IsExpired(h, t) THEN "expired" ELSE h.status

\* C39: the stored status of a reservation changes only along reserved ->
\* confirmed, reserved -> cancelled, reserved -> expired and confirmed ->
\* cancelled, and a reservation that is cancelled or expired is not reserved
\* or confirmed after any step.
C39_HoldNeverRevived ==
    [][\A i \in DOMAIN holds :
          /\ \/ holds'[i].status = holds[i].status
             \/ <<holds[i].status, holds'[i].status>> \in HoldMoves
          /\ HoldState(holds[i], now) \in {"cancelled", "expired"}
                => HoldState(holds'[i], now') \notin {"reserved", "confirmed"}]_vars

\* the reservations attached to booking b
AttachedTo(b) == {i \in DOMAIN holds : holds[i].booking = b}

\* C40: a confirmed reservation is attached to a booking of its showtime and
\* has confirmed_at set, and a booking made with reservations has as many
\* seats as reservations attached to it, its seat_numbers being the seats of
\* those reservations.
C40_ConfirmedHoldsMatchBooking ==
    /\ \A i \in DOMAIN holds :
          holds[i].status = "confirmed"
          => /\ holds[i].booking \in DOMAIN bookings
             /\ bookings[holds[i].booking].showtime = holds[i].showtime
             /\ holds[i].confirmed_at # NoneVal
    /\ \A b \in DOMAIN bookings :
          bookings[b].seat_numbers # <<>>
          => /\ bookings[b].number_of_seats = Cardinality(AttachedTo(b))
             /\ Len(bookings[b].seat_numbers) = Cardinality(AttachedTo(b))
             /\ Range(bookings[b].seat_numbers) =
                    {holds[i].seat : i \in AttachedTo(b)}

====
